---- MODULE Spec2Model ----
(***************************************************************************)
(* multikubectl: one kubectl command is run against several kubeconfig     *)
(* contexts in parallel (pkg/executor), and the per-context outputs are    *)
(* merged into one stream (pkg/output) by the root command (cmd/root.go).  *)
(*                                                                         *)
(* Text is modelled as a sequence of one-character strings (ASCII only),   *)
(* so that newlines, suffixes, padding and substring search are computed   *)
(* as the Go code computes them.                                           *)
(***************************************************************************)
EXTENDS Integers, Sequences, FiniteSets, TLC

(***************************************************************************)
(* Bounds of the model.                                                    *)
(***************************************************************************)
\* Largest number of contexts a kubeconfig file holds.
MaxContexts == 2
\* Largest number of results handed to a merge in SpecMerge.
MaxResults == 2
\* Largest number of tokens on a command line in SpecArgs.
MaxArgs == 3

(***************************************************************************)
(* Text helpers: the strings package functions the code calls.             *)
(***************************************************************************)
NL == "\n"

\* strings.HasSuffix(s, "\n")
HasSuffix(s) == Len(s) > 0 /\ s[Len(s)] = NL

\* strings.TrimSuffix(s, "\n"): removes one trailing newline, if any
TrimSuffix(s) == IF HasSuffix(s) THEN SubSeq(s, 1, Len(s) - 1) ELSE s

\* strings.Split(s, "\n"): the pieces between newlines; Split("") = <<"">>
RECURSIVE Split(_)
Split(s) ==
  IF \A k \in 1..Len(s) : s[k] # NL
  THEN <<s>>
  ELSE LET k == CHOOSE k \in 1..Len(s) :
                  s[k] = NL /\ \A j \in 1..(k - 1) : s[j] # NL
       IN  <<SubSeq(s, 1, k - 1)>> \o Split(SubSeq(s, k + 1, Len(s)))

lowerLetters == <<"a", "b", "c", "d", "e", "f", "g", "h", "i", "j", "k", "l", "m", "n", "o", "p", "q", "r", "s", "t", "u", "v", "w", "x", "y", "z">>
upperLetters == <<"A", "B", "C", "D", "E", "F", "G", "H", "I", "J", "K", "L", "M", "N", "O", "P", "Q", "R", "S", "T", "U", "V", "W", "X", "Y", "Z">>

\* strings.ToUpper, on ASCII text
ToUpper(s) ==
  [k \in 1..Len(s) |->
     IF \E n \in 1..Len(lowerLetters) : lowerLetters[n] = s[k]
     THEN upperLetters[CHOOSE n \in 1..Len(lowerLetters) : lowerLetters[n] = s[k]]
     ELSE s[k]]

\* strings.HasPrefix(s, prefix)
HasPrefix(s, prefix) == Len(s) >= Len(prefix) /\ SubSeq(s, 1, Len(prefix)) = prefix

\* strings.Contains(s, sub)
Contains(s, sub) ==
  \E k \in 0..(Len(s) - Len(sub)) : SubSeq(s, k + 1, k + Len(sub)) = sub

\* fmt's %-Ns verb: s left-justified, padded with spaces to width n
RECURSIVE PadRight(_, _)
PadRight(s, n) == IF Len(s) >= n THEN s ELSE PadRight(Append(s, " "), n)

(***************************************************************************)
(* executor.Result and the error values stored in it.                      *)
(***************************************************************************)
\* A nil error
NilError == [kind |-> "nil", msg |-> <<>>]

\* fmt.Errorf("%s", text): an error whose message is text
Errorf(text) == [kind |-> "errorString", msg |-> text]

\* The *exec.Error cmd.Run returns when kubectl cannot be started
ExecNotFound == [kind |-> "execError", msg |-> <<"exec: kubectl: executable file not found in $PATH">>]

\* The zero Result of make([]Result, n)
ZeroResult == [Context |-> <<>>, Output |-> <<>>, Error |-> NilError, ExitCode |-> 0]

(***************************************************************************)
(* pkg/output: the merger.                                                 *)
(***************************************************************************)
headerKeywords ==
  << <<"N", "A", "M", "E">>,
     <<"N", "A", "M", "E", "S", "P", "A", "C", "E">>,
     <<"S", "T", "A", "T", "U", "S">>,
     <<"R", "E", "A", "D", "Y">>,
     <<"A", "G", "E">>,
     <<"R", "E", "S", "T", "A", "R", "T", "S">>,
     <<"C", "L", "U", "S", "T", "E", "R", "-", "I", "P">>,
     <<"E", "X", "T", "E", "R", "N", "A", "L", "-", "I", "P">>,
     <<"P", "O", "R", "T">>,
     <<"N", "O", "D", "E">>,
     <<"N", "O", "M", "I", "N", "A", "T", "E", "D">>,
     <<"R", "E", "A", "D", "I", "N", "E", "S", "S">>,
     <<"R", "E", "A", "S", "O", "N">>,
     <<"M", "E", "S", "S", "A", "G", "E">>,
     <<"T", "Y", "P", "E">>,
     <<"D", "A", "T", "A">>,
     <<"C", "A", "P", "A", "C", "I", "T", "Y">>,
     <<"A", "C", "C", "E", "S", "S">>,
     <<"S", "T", "O", "R", "A", "G", "E", "C", "L", "A", "S", "S">>,
     <<"V", "O", "L", "U", "M", "E", "A", "T", "T", "R", "I", "B", "U", "T", "E", "S", "C", "L", "A", "S", "S">>,
     <<"P", "R", "O", "V", "I", "S", "I", "O", "N", "E", "R">>,
     <<"R", "E", "C", "L", "A", "I", "M", "P", "O", "L", "I", "C", "Y">>,
     <<"V", "O", "L", "U", "M", "E", "B", "I", "N", "D", "I", "N", "G", "M", "O", "D", "E">>,
     <<"A", "L", "L", "O", "W", "V", "O", "L", "U", "M", "E", "E", "X", "P", "A", "N", "S", "I", "O", "N">>,
     <<"C", "O", "M", "P", "L", "E", "T", "I", "O", "N", "S">>,
     <<"D", "U", "R", "A", "T", "I", "O", "N">>,
     <<"S", "C", "H", "E", "D", "U", "L", "E">>,
     <<"S", "U", "S", "P", "E", "N", "D">>,
     <<"A", "C", "T", "I", "V", "E">>,
     <<"L", "A", "S", "T">>,
     <<"D", "E", "S", "I", "R", "E", "D">>,
     <<"C", "U", "R", "R", "E", "N", "T">>,
     <<"U", "P", "-", "T", "O", "-", "D", "A", "T", "E">>,
     <<"A", "V", "A", "I", "L", "A", "B", "L", "E">>,
     <<"R", "E", "F", "E", "R", "E", "N", "C", "E">>,
     <<"T", "A", "R", "G", "E", "T", "S">>,
     <<"M", "I", "N", "P", "O", "D", "S">>,
     <<"M", "A", "X", "P", "O", "D", "S">>,
     <<"R", "E", "P", "L", "I", "C", "A", "S">> >>

\* Merger.isHeaderLine: at least two keywords occur in the upper-cased line
isHeaderLine(line) ==
  LET upperLine  == ToUpper(line)
      matchCount == Cardinality({k \in 1..Len(headerKeywords) :
                                   Contains(upperLine, headerKeywords[k])})
  IN  matchCount >= 2

\* "CLUSTER", whose length is the minimum column width
ClusterLabel == <<"C", "L", "U", "S", "T", "E", "R">>

\* The minimum cluster column width
MinColumnWidth == 7

RECURSIVE MaxContextLen(_, _)
MaxContextLen(results, w) ==
  IF results = <<>> THEN w
  ELSE MaxContextLen(Tail(results),
                     IF Len(Head(results).Context) > w
                     THEN Len(Head(results).Context) ELSE w)

\* Mutant of clusterColumnWidth: the width starts at 0, not at len("CLUSTER")
clusterColumnWidth_NoMinimum(results) == MaxContextLen(results, 0)

\* m.clusterColumnWidth as MergeResults computes it
clusterColumnWidth(results) == MaxContextLen(results, MinColumnWidth)

\* Merger.formatLine: "%-<width>s   %s"
formatLine(width, cluster, line) == PadRight(cluster, width) \o <<" ", " ", " ">> \o line

\* Mutant of MergeLines: empty lines are not skipped
RECURSIVE MergeLines_KeepBlank(_, _, _, _, _, _)
MergeLines_KeepBlank(width, ctx, lines, i, showHeaders, acc) ==
  IF i > Len(lines) THEN acc
  ELSE LET line == lines[i]
           isHeader == i = 1 /\ isHeaderLine(line)
       IN  IF isHeader
           THEN IF ~acc.headerPrinted /\ showHeaders
                THEN MergeLines_KeepBlank(width, ctx, lines, i + 1, showHeaders,
                       [out |-> acc.out \o formatLine(width, ClusterLabel, line) \o <<NL>>,
                        headerPrinted |-> TRUE])
                ELSE MergeLines_KeepBlank(width, ctx, lines, i + 1, showHeaders, acc)
           ELSE MergeLines_KeepBlank(width, ctx, lines, i + 1, showHeaders,
                       [out |-> acc.out \o formatLine(width, ctx, line) \o <<NL>>,
                        headerPrinted |-> acc.headerPrinted])

\* The loop over one result's lines; acc = [out, headerPrinted]
RECURSIVE MergeLines(_, _, _, _, _, _)
MergeLines(width, ctx, lines, i, showHeaders, acc) ==
  IF i > Len(lines) THEN acc
  ELSE LET line == lines[i]
           isHeader == i = 1 /\ isHeaderLine(line)
       IN  IF line = <<>>
           THEN MergeLines(width, ctx, lines, i + 1, showHeaders, acc)
           ELSE IF isHeader
           THEN IF ~acc.headerPrinted /\ showHeaders
                THEN MergeLines(width, ctx, lines, i + 1, showHeaders,
                       [out |-> acc.out \o formatLine(width, ClusterLabel, line) \o <<NL>>,
                        headerPrinted |-> TRUE])
                ELSE MergeLines(width, ctx, lines, i + 1, showHeaders, acc)
           ELSE MergeLines(width, ctx, lines, i + 1, showHeaders,
                       [out |-> acc.out \o formatLine(width, ctx, line) \o <<NL>>,
                        headerPrinted |-> acc.headerPrinted])

\* The loop over the results of MergeResults
RECURSIVE MergeResultsLoop(_, _, _, _)
MergeResultsLoop(width, results, showHeaders, acc) ==
  IF results = <<>> THEN acc.out
  ELSE LET result == Head(results)
       IN  IF result.Error # NilError
           THEN MergeResultsLoop(width, Tail(results), showHeaders,
                  [out |-> acc.out \o <<"#", " ", "E", "r", "r", "o", "r", " ", "f", "r", "o", "m", " ", "c", "l", "u", "s", "t", "e", "r", " ">> \o result.Context
                             \o <<":", " ">> \o result.Error.msg \o <<NL>>,
                   headerPrinted |-> acc.headerPrinted])
           ELSE IF result.Output = <<>>
           THEN MergeResultsLoop(width, Tail(results), showHeaders, acc)
           ELSE MergeResultsLoop(width, Tail(results), showHeaders,
                  MergeLines(width, result.Context,
                             Split(TrimSuffix(result.Output)), 1, showHeaders, acc))

\* Mutant of MergeResults: the error lines are written after the table
MergeResults_ErrorsLast(results, showHeaders) ==
  IF Len(results) = 0 THEN <<>>
  ELSE MergeResultsLoop(clusterColumnWidth(results),
                        SelectSeq(results, LAMBDA r : r.Error = NilError)
                          \o SelectSeq(results, LAMBDA r : r.Error # NilError),
                        showHeaders,
                        [out |-> <<>>, headerPrinted |-> FALSE])

\* Merger.MergeResults
MergeResults(results, showHeaders) ==
  IF Len(results) = 0 THEN <<>>
  ELSE MergeResultsLoop(clusterColumnWidth(results), results, showHeaders,
                        [out |-> <<>>, headerPrinted |-> FALSE])

\* Mutant of NonTableBlock: the blank separator line is written after the
\* delimiter line of an errored result too
NonTableBlock_BlankAfterError(result) ==
  IF result.Error # NilError
  THEN <<"=", "=", "=", " ", "C", "l", "u", "s", "t", "e", "r", ":", " ">> \o result.Context \o <<" ", "(", "E", "r", "r", "o", "r", ":", " ">> \o result.Error.msg \o <<")", " ", "=", "=", "=">> \o <<NL, NL>>
  ELSE <<"=", "=", "=", " ", "C", "l", "u", "s", "t", "e", "r", ":", " ">> \o result.Context \o <<" ", "=", "=", "=">> \o <<NL>>
         \o result.Output
         \o (IF ~HasSuffix(result.Output) THEN <<NL>> ELSE <<>>)
         \o <<NL>>

\* Mutant of NonTableBlock: a newline is always written after the output
NonTableBlock_AlwaysNewline(result) ==
  IF result.Error # NilError
  THEN <<"=", "=", "=", " ", "C", "l", "u", "s", "t", "e", "r", ":", " ">> \o result.Context \o <<" ", "(", "E", "r", "r", "o", "r", ":", " ">> \o result.Error.msg \o <<")", " ", "=", "=", "=">> \o <<NL>>
  ELSE <<"=", "=", "=", " ", "C", "l", "u", "s", "t", "e", "r", ":", " ">> \o result.Context \o <<" ", "=", "=", "=">> \o <<NL>>
         \o result.Output
         \o <<NL>>
         \o <<NL>>

\* The block MergeNonTableOutput writes for one result
NonTableBlock(result) ==
  IF result.Error # NilError
  THEN <<"=", "=", "=", " ", "C", "l", "u", "s", "t", "e", "r", ":", " ">> \o result.Context \o <<" ", "(", "E", "r", "r", "o", "r", ":", " ">> \o result.Error.msg \o <<")", " ", "=", "=", "=">> \o <<NL>>
  ELSE <<"=", "=", "=", " ", "C", "l", "u", "s", "t", "e", "r", ":", " ">> \o result.Context \o <<" ", "=", "=", "=">> \o <<NL>>
         \o result.Output
         \o (IF ~HasSuffix(result.Output) THEN <<NL>> ELSE <<>>)
         \o <<NL>>

\* Merger.MergeNonTableOutput
RECURSIVE MergeNonTableOutput(_)
MergeNonTableOutput(results) ==
  IF results = <<>> THEN <<>>
  ELSE NonTableBlock(Head(results)) \o MergeNonTableOutput(Tail(results))

(***************************************************************************)
(* The environment of one run: files, flags and subprocess behaviour.      *)
(***************************************************************************)
CtxA == <<"A">>
CtxB == <<"B">>
\* A name no kubeconfig of the model holds
CtxZ == <<"Z">>

RECURSIVE SeqsUpTo(_, _)
SeqsUpTo(S, n) ==
  IF n = 0 THEN {<<>>}
  ELSE LET shorter == SeqsUpTo(S, n - 1)
       IN  shorter \cup {Append(q, x) : q \in shorter, x \in S}

\* The kubeconfig file: unreadable, unparsable, or a list of context names
KubeFiles ==
  {[status |-> "unreadable", contexts |-> <<>>],
   [status |-> "unparsable", contexts |-> <<>>]}
  \cup {[status |-> "ok", contexts |-> cs] : cs \in SeqsUpTo({CtxA, CtxB}, MaxContexts)}

\* Lists of requested names: empty, known, unknown, repeated
RequestedLists == {<<>>, <<CtxB, CtxA>>, <<CtxZ>>, <<CtxA, CtxA>>}

\* The ~/.multikube/config file
ConfigFiles ==
  {[status |-> "absent", contexts |-> <<>>],
   [status |-> "unreadable", contexts |-> <<>>],
   [status |-> "unparsable", contexts |-> <<>>]}
  \cup {[status |-> "ok", contexts |-> cs] : cs \in RequestedLists}

\* The kubectl arguments left after separateArgs
ArgLists ==
  {<<>>, <<"get", "pods">>, <<"logs", "web">>, <<"-n", "kube-system", "logs", "web">>}

\* What one kubectl subprocess does: it cannot be started, it exits by itself
\* with a code, or it is killed when the deadline of its context expires.
Outcomes ==
  {[kind |-> "spawnfail", code |-> 0, stdout |-> <<>>, stderr |-> <<>>],
   [kind |-> "exited", code |-> 0,
    stdout |-> <<"a", "b", "c", NL>>, stderr |-> <<"w", "a", "r", "n", NL>>],
   [kind |-> "exited", code |-> 2,
    stdout |-> <<>>, stderr |-> <<"b", "o", "o", "m", NL>>],
   [kind |-> "killed", code |-> 0,
    stdout |-> <<>>, stderr |-> <<"b", "o", "o", "m", NL>>]}

\* No subprocess yet
NoProc == [kind |-> "none", code |-> 0, stdout |-> <<>>, stderr |-> <<>>, cmdArgs |-> <<>>]

\* No process exit yet
NotExited == -1

VARIABLES
  kubeFile,        \* the kubeconfig file
  configFile,      \* the ~/.multikube/config file
  contexts,        \* the --contexts flag
  allContexts,     \* the --all-contexts flag
  args,            \* the kubectl arguments
  pc,              \* position of the main goroutine
  targetContexts,  \* runMultiKubectl's targetContexts
  results,         \* Execute's results slice
  loopIndex,       \* next index of Execute's loop
  wg,              \* the WaitGroup counter
  worker,          \* worker[i]: position of goroutine i
  proc,            \* proc[i]: what the subprocess of goroutine i did
  storeLog,        \* history: each write to results, [slot, by], in order
  returned,        \* the slice Execute returned to its caller
  stdout,          \* what the run wrote to standard output, one write each
  stderr,          \* what the run wrote to standard error, one message each
  exitStatus,      \* the exit status of the process
  mergeIn,         \* SpecMerge: the results given to the merger
  mergeMode,       \* SpecMerge: "table" or "nontable"
  mergeOut,        \* SpecMerge: what the merger returned
  osArgs,          \* SpecArgs: os.Args[1:]
  ourArgs,         \* SpecArgs: the tokens separateArgs keeps for multikubectl
  kubectlArgs      \* SpecArgs: the tokens separateArgs passes on to kubectl

runVars == <<kubeFile, configFile, contexts, allContexts, args, pc, targetContexts,
             results, loopIndex, wg, worker, proc, storeLog, returned, stdout, stderr,
             exitStatus>>
mergeVars == <<mergeIn, mergeMode, mergeOut>>
cliVars == <<osArgs, ourArgs, kubectlArgs>>
vars == <<runVars, mergeVars, cliVars>>
(***************************************************************************)
(* pkg/cluster and pkg/config: the target resolver.                        *)
(***************************************************************************)
\* cluster.NewManager fails when the kubeconfig cannot be read or parsed
NewManagerFails == kubeFile.status # "ok"

\* Manager.GetContexts: every context name, in file order
GetContexts == kubeFile.contexts

\* The default path NewManager uses when --kubeconfig is not given
getDefaultKubeConfigPath == "$HOME/.kube/config"

\* Manager.GetKubeConfigPath
GetKubeConfigPath == getDefaultKubeConfigPath

\* Mutant of FilterContexts: the kubeconfig's contexts that were requested,
\* in the kubeconfig's order
FilterContexts_SourceOrder(requested) ==
  IF Len(requested) = 0 THEN GetContexts
  ELSE SelectSeq(kubeFile.contexts,
                 LAMBDA n : \E k \in 1..Len(requested) : requested[k] = n)

RECURSIVE FilterLoop(_)
FilterLoop(requested) ==
  IF requested = <<>> THEN <<>>
  ELSE (IF \E k \in 1..Len(kubeFile.contexts) : kubeFile.contexts[k] = Head(requested)
        THEN <<Head(requested)>> ELSE <<>>) \o FilterLoop(Tail(requested))

\* Manager.FilterContexts
FilterContexts(requested) ==
  IF Len(requested) = 0 THEN GetContexts ELSE FilterLoop(requested)

\* config.Exists
ConfigExists == configFile.status # "absent"

\* config.Load fails on a file that cannot be read or parsed
ConfigLoadFails == configFile.status \in {"unreadable", "unparsable"}

\* Mutant of ResolveTargets: the config file is consulted before --all-contexts
ResolveTargets_ConfigBeforeAll ==
  IF Len(contexts) > 0 THEN [err |-> FALSE, targets |-> FilterContexts(contexts)]
  ELSE IF ConfigExists
  THEN IF ConfigLoadFails THEN [err |-> TRUE, targets |-> <<>>]
       ELSE IF Len(configFile.contexts) > 0
       THEN [err |-> FALSE, targets |-> FilterContexts(configFile.contexts)]
       ELSE [err |-> FALSE, targets |-> GetContexts]
  ELSE [err |-> FALSE, targets |-> GetContexts]

\* runMultiKubectl's choice of targetContexts; err when config.Load fails
ResolveTargets ==
  IF Len(contexts) > 0 THEN [err |-> FALSE, targets |-> FilterContexts(contexts)]
  ELSE IF allContexts THEN [err |-> FALSE, targets |-> GetContexts]
  ELSE IF ConfigExists
  THEN IF ConfigLoadFails THEN [err |-> TRUE, targets |-> <<>>]
       ELSE IF Len(configFile.contexts) > 0
       THEN [err |-> FALSE, targets |-> FilterContexts(configFile.contexts)]
       ELSE [err |-> FALSE, targets |-> GetContexts]
  ELSE [err |-> FALSE, targets |-> GetContexts]

(***************************************************************************)
(* pkg/executor: one kubectl subprocess per context.                       *)
(***************************************************************************)
\* The command line executeOne builds for kubectl
BuildCmdArgs(kubeConfigPath, contextName, kargs) ==
  (IF kubeConfigPath # "" THEN <<"--kubeconfig", kubeConfigPath>> ELSE <<>>)
    \o <<"--context", contextName>> \o kargs

\* The error cmd.Run returns for a subprocess outcome: nil for exit status 0,
\* an *exec.ExitError for a nonzero exit and for a process killed by the
\* deadline's signal (ExitCode() = -1), another error when it did not start.
RunError(o) ==
  IF o.kind = "spawnfail" THEN [kind |-> "execError", code |-> 0]
  ELSE IF o.kind = "killed" THEN [kind |-> "ExitError", code |-> -1]
  ELSE IF o.code # 0 THEN [kind |-> "ExitError", code |-> o.code]
  ELSE [kind |-> "nil", code |-> 0]

\* Mutant of executeOne: standard error is captured into the same buffer as
\* standard output (as cmd.CombinedOutput would)
executeOne_CombinedOutput(contextName, o) ==
  LET err    == RunError(o)
      result == [Context |-> contextName, Output |-> o.stdout \o o.stderr,
                 Error |-> NilError, ExitCode |-> 0]
  IN  IF err.kind # "nil"
      THEN IF err.kind = "ExitError"
           THEN [result EXCEPT !.ExitCode = err.code, !.Error = Errorf(o.stderr)]
           ELSE [result EXCEPT !.Error = ExecNotFound]
      ELSE result

\* Executor.executeOne, given what the subprocess did
executeOne(contextName, o) ==
  LET err    == RunError(o)
      result == [Context |-> contextName, Output |-> o.stdout,
                 Error |-> NilError, ExitCode |-> 0]
  IN  IF err.kind # "nil"
      THEN IF err.kind = "ExitError"
           THEN [result EXCEPT !.ExitCode = err.code, !.Error = Errorf(o.stderr)]
           ELSE [result EXCEPT !.Error = ExecNotFound]
      ELSE result

(***************************************************************************)
(* cmd/root.go: the run.                                                   *)
(***************************************************************************)
\* nonTableCommands
nonTableCommands ==
  <<"logs", "describe", "explain", "edit", "exec", "attach", "port-forward", "proxy", "cp">>

\* runMultiKubectl's isNonTableCmd
isNonTableCmd(kargs) ==
  \E k \in 1..Len(nonTableCommands) : Len(kargs) > 0 /\ kargs[1] = nonTableCommands[k]

\* runMultiKubectl's mergedOutput
mergedOutput(kargs, rs) ==
  IF isNonTableCmd(kargs) THEN MergeNonTableOutput(rs) ELSE MergeResults(rs, TRUE)

\* The final loop of runMultiKubectl: os.Exit(1) on the first error, else return
FinalStatus(rs) == IF \E k \in 1..Len(rs) : rs[k].Error # NilError THEN 1 ELSE 0

NoList == [visible |-> FALSE, list |-> <<>>]

InitRun ==
  /\ kubeFile \in KubeFiles
  /\ configFile \in ConfigFiles
  /\ contexts \in RequestedLists
  /\ allContexts \in BOOLEAN
  /\ args \in ArgLists
  /\ pc = "start"
  /\ targetContexts = <<>>
  /\ results = <<>>
  /\ loopIndex = 1
  /\ wg = 0
  /\ worker = <<>>
  /\ proc = <<>>
  /\ storeLog = <<>>
  /\ returned = NoList
  /\ stdout = <<>>
  /\ stderr = <<>>
  /\ exitStatus = NotExited

\* os.Exit(1) after a message on standard error
Fatal(msg) ==
  /\ stderr' = Append(stderr, msg)
  /\ exitStatus' = 1
  /\ pc' = "exited"
  /\ UNCHANGED <<targetContexts, results, worker, proc, stdout>>

\* Mutant of Resolve: the check for an empty target list is missing
Resolve_NoEmptyCheck ==
  /\ pc = "start"
  /\ IF Len(args) = 0
     THEN /\ stdout' = Append(stdout, <<"help">>)
          /\ exitStatus' = 0
          /\ pc' = "exited"
          /\ UNCHANGED <<targetContexts, results, worker, proc, stderr>>
     ELSE IF NewManagerFails
     THEN Fatal("Error loading kubeconfig")
     ELSE IF ResolveTargets.err
     THEN Fatal("Error loading multikube config")
     ELSE /\ targetContexts' = ResolveTargets.targets
          /\ results' = [k \in 1..Len(ResolveTargets.targets) |-> ZeroResult]
          /\ worker' = [k \in 1..Len(ResolveTargets.targets) |-> "idle"]
          /\ proc' = [k \in 1..Len(ResolveTargets.targets) |-> NoProc]
          /\ pc' = "dispatch"
          /\ UNCHANGED <<stdout, stderr, exitStatus>>
  /\ UNCHANGED <<kubeFile, configFile, contexts, allContexts, args, loopIndex, wg,
                 storeLog, returned, mergeVars, cliVars>>

\* runMultiKubectl up to the call of Execute, and Execute's make([]Result, n)
Resolve ==
  /\ pc = "start"
  /\ IF Len(args) = 0
     THEN /\ stdout' = Append(stdout, <<"help">>)
          /\ exitStatus' = 0
          /\ pc' = "exited"
          /\ UNCHANGED <<targetContexts, results, worker, proc, stderr>>
     ELSE IF NewManagerFails
     THEN Fatal("Error loading kubeconfig")
     ELSE IF ResolveTargets.err
     THEN Fatal("Error loading multikube config")
     ELSE IF Len(ResolveTargets.targets) = 0
     THEN Fatal("No valid contexts found")
     ELSE /\ targetContexts' = ResolveTargets.targets
          /\ results' = [k \in 1..Len(ResolveTargets.targets) |-> ZeroResult]
          /\ worker' = [k \in 1..Len(ResolveTargets.targets) |-> "idle"]
          /\ proc' = [k \in 1..Len(ResolveTargets.targets) |-> NoProc]
          /\ pc' = "dispatch"
          /\ UNCHANGED <<stdout, stderr, exitStatus>>
  /\ UNCHANGED <<kubeFile, configFile, contexts, allContexts, args, loopIndex, wg,
                 storeLog, returned, mergeVars, cliVars>>

\* One iteration of Execute's loop: wg.Add(1) and the go statement
Go ==
  /\ pc = "dispatch"
  /\ loopIndex <= Len(targetContexts)
  /\ wg' = wg + 1
  /\ worker' = [worker EXCEPT ![loopIndex] = "running"]
  /\ loopIndex' = loopIndex + 1
  /\ UNCHANGED <<kubeFile, configFile, contexts, allContexts, args, pc, targetContexts,
                 results, proc, storeLog, returned, stdout, stderr, exitStatus,
                 mergeVars, cliVars>>

\* Goroutine i: cmd.Run starts kubectl for targetContexts[i] and returns
RunKubectl(i) ==
  /\ worker[i] = "running"
  /\ \E o \in Outcomes :
       proc' = [proc EXCEPT ![i] =
                  [kind |-> o.kind, code |-> o.code, stdout |-> o.stdout,
                   stderr |-> o.stderr,
                   cmdArgs |-> BuildCmdArgs(GetKubeConfigPath, targetContexts[i], args)]]
  /\ worker' = [worker EXCEPT ![i] = "ran"]
  /\ UNCHANGED <<kubeFile, configFile, contexts, allContexts, args, pc, targetContexts,
                 results, loopIndex, wg, storeLog, returned, stdout, stderr,
                 exitStatus, mergeVars, cliVars>>

\* Mutant of StoreResult: the result is stored at the next free position, in
\* completion order, instead of at the goroutine's own index
StoreResult_CompletionOrder(i) ==
  /\ worker[i] = "ran"
  /\ results' = [results EXCEPT ![Len(storeLog) + 1] = executeOne(targetContexts[i], proc[i])]
  /\ wg' = wg - 1
  /\ worker' = [worker EXCEPT ![i] = "done"]
  /\ storeLog' = Append(storeLog, [slot |-> Len(storeLog) + 1, by |-> i])
  /\ UNCHANGED <<kubeFile, configFile, contexts, allContexts, args, pc, targetContexts,
                 loopIndex, proc, returned, stdout, stderr, exitStatus, mergeVars, cliVars>>

\* Mutant of StoreResult: the goroutines share one subprocess record, so a
\* goroutine may store what another goroutine's subprocess did
StoreResult_SharedProc(i) ==
  /\ worker[i] = "ran"
  /\ \E j \in 1..Len(worker) :
       /\ worker[j] \in {"ran", "done"}
       /\ results' = [results EXCEPT ![i] = executeOne(targetContexts[i], proc[j])]
  /\ wg' = wg - 1
  /\ worker' = [worker EXCEPT ![i] = "done"]
  /\ storeLog' = Append(storeLog, [slot |-> i, by |-> i])
  /\ UNCHANGED <<kubeFile, configFile, contexts, allContexts, args, pc, targetContexts,
                 loopIndex, proc, returned, stdout, stderr, exitStatus, mergeVars, cliVars>>

\* Mutant of StoreResult: wg.Done() is called only when the subprocess exited
\* by itself, not when it was killed or could not be started
StoreResult_DoneOnExitOnly(i) ==
  /\ worker[i] = "ran"
  /\ results' = [results EXCEPT ![i] = executeOne(targetContexts[i], proc[i])]
  /\ wg' = IF proc[i].kind = "exited" THEN wg - 1 ELSE wg
  /\ worker' = [worker EXCEPT ![i] = "done"]
  /\ storeLog' = Append(storeLog, [slot |-> i, by |-> i])
  /\ UNCHANGED <<kubeFile, configFile, contexts, allContexts, args, pc, targetContexts,
                 loopIndex, proc, returned, stdout, stderr, exitStatus, mergeVars, cliVars>>

\* Mutant of StoreResult: the goroutine does not get its index as an argument
\* but reads the loop variable, which the loop of Execute has moved on
StoreResult_LoopVariable(i) ==
  LET index == IF loopIndex <= Len(targetContexts) THEN loopIndex ELSE Len(targetContexts)
  IN  /\ worker[i] = "ran"
      /\ results' = [results EXCEPT ![index] = executeOne(targetContexts[i], proc[i])]
      /\ wg' = wg - 1
      /\ worker' = [worker EXCEPT ![i] = "done"]
      /\ storeLog' = Append(storeLog, [slot |-> index, by |-> i])
      /\ UNCHANGED <<kubeFile, configFile, contexts, allContexts, args, pc, targetContexts,
                     loopIndex, proc, returned, stdout, stderr, exitStatus, mergeVars, cliVars>>

\* Goroutine i: results[index] = e.executeOne(...), then the deferred wg.Done()
StoreResult(i) ==
  /\ worker[i] = "ran"
  /\ results' = [results EXCEPT ![i] = executeOne(targetContexts[i], proc[i])]
  /\ wg' = wg - 1
  /\ worker' = [worker EXCEPT ![i] = "done"]
  /\ storeLog' = Append(storeLog, [slot |-> i, by |-> i])
  /\ UNCHANGED <<kubeFile, configFile, contexts, allContexts, args, pc, targetContexts,
                 loopIndex, proc, returned, stdout, stderr, exitStatus, mergeVars, cliVars>>

\* Mutant of WaitDone: Execute returns after its loop without wg.Wait()
WaitDone_NoWait == loopIndex > Len(targetContexts)

\* wg.Wait() has returned when the loop is over and the counter is zero
WaitDone == loopIndex > Len(targetContexts) /\ wg = 0

\* Execute: wg.Wait() and return results
Wait ==
  /\ pc = "dispatch"
  /\ WaitDone
  /\ returned' = [visible |-> TRUE, list |-> results]
  /\ pc' = "merge"
  /\ UNCHANGED <<kubeFile, configFile, contexts, allContexts, args, targetContexts,
                 results, loopIndex, wg, worker, proc, storeLog, stdout, stderr,
                 exitStatus, mergeVars, cliVars>>

\* runMultiKubectl: merge the results and fmt.Print(mergedOutput)
PrintMerged ==
  /\ pc = "merge"
  /\ stdout' = Append(stdout, mergedOutput(args, returned.list))
  /\ pc' = "printed"
  /\ UNCHANGED <<kubeFile, configFile, contexts, allContexts, args, targetContexts,
                 results, loopIndex, wg, worker, proc, storeLog, returned, stderr,
                 exitStatus, mergeVars, cliVars>>

\* Mutant of Exit: the error check runs before the merged output is printed
Exit_BeforePrint ==
  /\ pc \in {"merge", "printed"}
  /\ pc = "merge" => FinalStatus(returned.list) = 1
  /\ exitStatus' = FinalStatus(returned.list)
  /\ pc' = "exited"
  /\ UNCHANGED <<kubeFile, configFile, contexts, allContexts, args, targetContexts,
                 results, loopIndex, wg, worker, proc, storeLog, returned, stdout, stderr,
                 mergeVars, cliVars>>

\* runMultiKubectl: the final loop over the results, and the end of the process
Exit ==
  /\ pc = "printed"
  /\ exitStatus' = FinalStatus(returned.list)
  /\ pc' = "exited"
  /\ UNCHANGED <<kubeFile, configFile, contexts, allContexts, args, targetContexts,
                 results, loopIndex, wg, worker, proc, storeLog, returned, stdout, stderr,
                 mergeVars, cliVars>>

Init ==
  /\ InitRun
  /\ mergeIn = <<>>
  /\ mergeMode = "off"
  /\ mergeOut = <<>>
  /\ osArgs = <<>>
  /\ ourArgs = <<>>
  /\ kubectlArgs = <<>>

Next ==
  \/ Resolve
  \/ Go
  \/ \E i \in 1..Len(worker) : RunKubectl(i)
  \/ \E i \in 1..Len(worker) : StoreResult(i)
  \/ Wait
  \/ PrintMerged
  \/ Exit

Spec == Init /\ [][Next]_vars

(***************************************************************************)
(* SpecLive: runs over all contexts of a readable kubeconfig, with the      *)
(* scheduling the Go runtime and the deadline give: the loop of Execute     *)
(* goes on, every started subprocess exits or is killed at its deadline     *)
(* (context.WithTimeout), every goroutine that can step does, and Execute   *)
(* returns from wg.Wait() when it can.                                      *)
(***************************************************************************)
InitLive ==
  /\ Init
  /\ kubeFile.status = "ok"
  /\ Len(kubeFile.contexts) = MaxContexts
  /\ configFile.status = "absent"
  /\ contexts = <<>>
  /\ allContexts
  /\ args = <<"get", "pods">>

Fairness ==
  /\ WF_vars(Go)
  /\ \A i \in 1..MaxContexts : WF_vars(i \in 1..Len(worker) /\ RunKubectl(i))
  /\ \A i \in 1..MaxContexts : WF_vars(i \in 1..Len(worker) /\ StoreResult(i))
  /\ WF_vars(Wait)

SpecLive == InitLive /\ [][Next]_vars /\ Fairness

(***************************************************************************)
(* SpecConfig: the config subcommands (cmd/config.go) applied to the        *)
(* ~/.multikube/config file, any number of times, before a run resolves     *)
(* its targets.                                                             *)
(***************************************************************************)
\* The context names given to config use / add / remove
NameLists == {<<CtxA>>, <<CtxB>>, <<CtxB, CtxA>>, <<CtxA, CtxA>>, <<CtxZ>>}

\* availableContexts[ctx]
Available(ctx) == \E k \in 1..Len(GetContexts) : GetContexts[k] = ctx

\* config.Load: an empty configuration when the file does not exist
LoadedContexts == IF configFile.status = "ok" THEN configFile.contexts ELSE <<>>

\* config.Save
Saved(list) == [status |-> "ok", contexts |-> list]

\* MultiKubeConfig.HasContext
HasContext(list, ctx) == \E k \in 1..Len(list) : list[k] = ctx

\* MultiKubeConfig.AddContext
AddContext(list, ctx) == IF HasContext(list, ctx) THEN list ELSE Append(list, ctx)

\* MultiKubeConfig.RemoveContext: the first occurrence is removed
RECURSIVE RemoveContext(_, _)
RemoveContext(list, ctx) ==
  IF list = <<>> THEN <<>>
  ELSE IF Head(list) = ctx THEN Tail(list)
  ELSE <<Head(list)>> \o RemoveContext(Tail(list), ctx)

\* The loop of runConfigAdd; acc = [list, added]
RECURSIVE AddLoop(_, _)
AddLoop(names, acc) ==
  IF names = <<>> THEN acc
  ELSE IF ~Available(Head(names)) THEN AddLoop(Tail(names), acc)
  ELSE IF HasContext(acc.list, Head(names)) THEN AddLoop(Tail(names), acc)
  ELSE AddLoop(Tail(names), [list |-> AddContext(acc.list, Head(names)),
                             added |-> acc.added + 1])

\* The loop of runConfigRemove; acc = [list, removed]
RECURSIVE RemoveLoop(_, _)
RemoveLoop(names, acc) ==
  IF names = <<>> THEN acc
  ELSE IF HasContext(acc.list, Head(names))
  THEN RemoveLoop(Tail(names), [list |-> RemoveContext(acc.list, Head(names)),
                                removed |-> acc.removed + 1])
  ELSE RemoveLoop(Tail(names), acc)

\* The loop of runConfigUse over the comma-separated names
RECURSIVE validContexts(_)
validContexts(names) ==
  IF names = <<>> THEN <<>>
  ELSE (IF Head(names) = <<>> \/ ~Available(Head(names)) THEN <<>> ELSE <<Head(names)>>)
         \o validContexts(Tail(names))

\* multikubectl config add <names>
ConfigAdd ==
  /\ pc = "start"
  /\ \E names \in NameLists :
       LET acc == AddLoop(names, [list |-> LoadedContexts, added |-> 0])
       IN  configFile' = IF NewManagerFails \/ ConfigLoadFails \/ acc.added = 0
                         THEN configFile
                         ELSE Saved(acc.list)
  /\ UNCHANGED <<kubeFile, contexts, allContexts, args, pc, targetContexts, results,
                 loopIndex, wg, worker, proc, storeLog, returned, stdout, stderr,
                 exitStatus, mergeVars, cliVars>>

\* multikubectl config remove <names>
ConfigRemove ==
  /\ pc = "start"
  /\ \E names \in NameLists :
       LET acc == RemoveLoop(names, [list |-> LoadedContexts, removed |-> 0])
       IN  configFile' = IF ConfigLoadFails \/ acc.removed = 0
                         THEN configFile
                         ELSE Saved(acc.list)
  /\ UNCHANGED <<kubeFile, contexts, allContexts, args, pc, targetContexts, results,
                 loopIndex, wg, worker, proc, storeLog, returned, stdout, stderr,
                 exitStatus, mergeVars, cliVars>>

\* multikubectl config use <name,name,...>
ConfigUse ==
  /\ pc = "start"
  /\ \E names \in NameLists :
       configFile' = IF NewManagerFails \/ Len(validContexts(names)) = 0
                     THEN configFile
                     ELSE Saved(validContexts(names))
  /\ UNCHANGED <<kubeFile, contexts, allContexts, args, pc, targetContexts, results,
                 loopIndex, wg, worker, proc, storeLog, returned, stdout, stderr,
                 exitStatus, mergeVars, cliVars>>

\* multikubectl config clear
ConfigClear ==
  /\ pc = "start"
  /\ configFile' = IF ConfigExists THEN [status |-> "absent", contexts |-> <<>>]
                   ELSE configFile
  /\ UNCHANGED <<kubeFile, contexts, allContexts, args, pc, targetContexts, results,
                 loopIndex, wg, worker, proc, storeLog, returned, stdout, stderr,
                 exitStatus, mergeVars, cliVars>>

\* No config file yet; a kubectl command is given
InitConfig ==
  /\ Init
  /\ configFile.status = "absent"
  /\ Len(args) > 0

NextConfig ==
  \/ ConfigUse
  \/ ConfigAdd
  \/ ConfigRemove
  \/ ConfigClear
  \/ Resolve

SpecConfig == InitConfig /\ [][NextConfig]_vars

(***************************************************************************)
(* SpecArgs: Execute's separateArgs applied to command lines.               *)
(***************************************************************************)
\* The flags separateArgs takes for multikubectl's own
ourFlags == {<<"-", "-", "k", "u", "b", "e", "c", "o", "n", "f", "i", "g">>,
             <<"-", "-", "c", "o", "n", "t", "e", "x", "t", "s">>,
             <<"-", "-", "a", "l", "l", "-", "c", "o", "n", "t", "e", "x", "t", "s">>,
             <<"-", "-", "t", "i", "m", "e", "o", "u", "t">>}

\* arg == flag || strings.HasPrefix(arg, flag+"=") for one of ourFlags
isOurFlag(arg) == \E flag \in ourFlags : arg = flag \/ HasPrefix(arg, flag \o <<"=">>)

\* The loop of separateArgs from position i; acc = [ourArgs, kubectlArgs]
RECURSIVE separateLoop(_, _, _)
separateLoop(cmdline, i, acc) ==
  IF i > Len(cmdline) THEN acc
  ELSE IF isOurFlag(cmdline[i])
  THEN IF /\ ~Contains(cmdline[i], <<"=">>)
          /\ i + 1 <= Len(cmdline)
          /\ ~HasPrefix(cmdline[i + 1], <<"-">>)
       THEN separateLoop(cmdline, i + 2,
              [ourArgs |-> acc.ourArgs \o <<cmdline[i], cmdline[i + 1]>>,
               kubectlArgs |-> acc.kubectlArgs])
       ELSE separateLoop(cmdline, i + 1,
              [ourArgs |-> Append(acc.ourArgs, cmdline[i]),
               kubectlArgs |-> acc.kubectlArgs])
  ELSE separateLoop(cmdline, i + 1,
         [ourArgs |-> acc.ourArgs,
          kubectlArgs |-> Append(acc.kubectlArgs, cmdline[i])])

\* separateArgs
separateArgs(cmdline) == separateLoop(cmdline, 1, [ourArgs |-> <<>>, kubectlArgs |-> <<>>])

\* The tokens of the command lines: flags of multikubectl in both forms, a
\* duration, and words and a flag of kubectl
TokAllContexts == <<"-", "-", "a", "l", "l", "-", "c", "o", "n", "t", "e", "x", "t", "s">>
TokContextsEq == <<"-", "-", "c", "o", "n", "t", "e", "x", "t", "s", "=", "A">>
TokTimeout == <<"-", "-", "t", "i", "m", "e", "o", "u", "t">>
TokDuration == <<"5", "s">>
TokGet == <<"g", "e", "t">>
TokPods == <<"p", "o", "d", "s">>
TokN == <<"-", "n">>
CliTokens == {TokAllContexts, TokContextsEq, TokTimeout, TokDuration, TokGet, TokPods, TokN}

\* The command lines
CmdLines == SeqsUpTo(CliTokens, MaxArgs)

InitArgs ==
  /\ osArgs \in CmdLines
  /\ ourArgs = <<>>
  /\ kubectlArgs = <<>>
  /\ mergeIn = <<>>
  /\ mergeMode = "off"
  /\ mergeOut = <<>>
  /\ kubeFile = [status |-> "ok", contexts |-> <<>>]
  /\ configFile = [status |-> "absent", contexts |-> <<>>]
  /\ contexts = <<>>
  /\ allContexts = FALSE
  /\ args = <<>>
  /\ pc = "argv"
  /\ targetContexts = <<>>
  /\ results = <<>>
  /\ loopIndex = 1
  /\ wg = 0
  /\ worker = <<>>
  /\ proc = <<>>
  /\ storeLog = <<>>
  /\ returned = NoList
  /\ stdout = <<>>
  /\ stderr = <<>>
  /\ exitStatus = NotExited

\* Execute: help for an empty command line, else separateArgs
CallSeparateArgs ==
  /\ pc = "argv"
  /\ IF Len(osArgs) = 0
     THEN /\ stdout' = Append(stdout, <<"help">>)
          /\ exitStatus' = 0
          /\ pc' = "exited"
          /\ UNCHANGED <<ourArgs, kubectlArgs>>
     ELSE /\ ourArgs' = separateArgs(osArgs).ourArgs
          /\ kubectlArgs' = separateArgs(osArgs).kubectlArgs
          /\ pc' = "separated"
          /\ UNCHANGED <<stdout, exitStatus>>
  /\ UNCHANGED <<osArgs, kubeFile, configFile, contexts, allContexts, args, targetContexts,
                 results, loopIndex, wg, worker, proc, storeLog, returned, stderr,
                 mergeVars>>

NextArgs == CallSeparateArgs

SpecArgs == InitArgs /\ [][NextArgs]_vars

(***************************************************************************)
(* SpecFilter: Manager.FilterContexts applied to lists of requested names.  *)
(***************************************************************************)
\* Lists of requested names, known and unknown, of every length
FilterRequests == SeqsUpTo({CtxA, CtxB, CtxZ}, MaxContexts)

InitFilter ==
  /\ kubeFile \in {f \in KubeFiles : f.status = "ok"}
  /\ contexts \in FilterRequests
  /\ pc = "filter"
  /\ targetContexts = <<>>
  /\ configFile = [status |-> "absent", contexts |-> <<>>]
  /\ allContexts = FALSE
  /\ args = <<>>
  /\ results = <<>>
  /\ loopIndex = 1
  /\ wg = 0
  /\ worker = <<>>
  /\ proc = <<>>
  /\ storeLog = <<>>
  /\ returned = NoList
  /\ stdout = <<>>
  /\ stderr = <<>>
  /\ exitStatus = NotExited
  /\ mergeIn = <<>>
  /\ mergeMode = "off"
  /\ mergeOut = <<>>
  /\ osArgs = <<>>
  /\ ourArgs = <<>>
  /\ kubectlArgs = <<>>

\* mgr.FilterContexts(contexts)
CallFilterContexts ==
  /\ pc = "filter"
  /\ targetContexts' = FilterContexts(contexts)
  /\ pc' = "filtered"
  /\ UNCHANGED <<kubeFile, configFile, contexts, allContexts, args, results, loopIndex,
                 wg, worker, proc, storeLog, returned, stdout, stderr, exitStatus,
                 mergeVars, cliVars>>

NextFilter == CallFilterContexts

SpecFilter == InitFilter /\ [][NextFilter]_vars

(***************************************************************************)
(* SpecMerge: the merger applied to result lists executeOne can produce.   *)
(***************************************************************************)
\* Subprocess outcomes whose results are merged: outputs with no, one and
\* several trailing newlines, an empty output, and a failure
MergeOutcomes ==
  {[kind |-> "exited", code |-> 0, stdout |-> out, stderr |-> <<>>] :
     out \in {<<>>, <<"a", "b", "c">>, <<"a", "b", "c", NL>>, <<"a", "b", "c", NL, NL>>}}
  \cup {[kind |-> "exited", code |-> 1, stdout |-> <<>>, stderr |-> <<"b", "o", "o", "m">>]}

\* "NAME READY\npod-1 1/1\npod-2 0/1\n": a table with its header and two rows
TableTwoRows ==
  <<"N", "A", "M", "E", " ", "R", "E", "A", "D", "Y", NL, "p", "o", "d", "-", "1", " ", "1", "/", "1", NL, "p", "o", "d", "-", "2", " ", "0", "/", "1", NL>>

\* "NAME AGE\nweb 5d\n": a table with another header
TableOtherHeader ==
  <<"N", "A", "M", "E", " ", "A", "G", "E", NL, "w", "e", "b", " ", "5", "d", NL>>

\* "NAME READY\n\npod-3 1/1\n": a table with a blank line inside
TableBlankInside ==
  <<"N", "A", "M", "E", " ", "R", "E", "A", "D", "Y", NL, NL, "p", "o", "d", "-", "3", " ", "1", "/", "1", NL>>

\* Outcomes with kubectl's table output, and a failure as kubectl reports it:
\* partial standard output, and a message on standard error ending in a newline
TableOutcomes ==
  {[kind |-> "exited", code |-> 0, stdout |-> out, stderr |-> <<>>] :
     out \in {TableTwoRows, TableOtherHeader, TableBlankInside}}
  \cup {[kind |-> "exited", code |-> 1, stdout |-> <<"a", "b", "c", NL>>,
         stderr |-> <<"b", "o", "o", "m", NL>>]}

\* A context name longer than "CLUSTER"
CtxLong == <<"s", "t", "a", "g", "i", "n", "g", "-", "e", "u">>

\* The results Execute can hand to the merger
MergeInputs ==
  {executeOne(c, o) : c \in {CtxA, CtxB, CtxLong}, o \in MergeOutcomes \cup TableOutcomes}

InitMerge ==
  /\ mergeIn \in SeqsUpTo(MergeInputs, MaxResults)
  /\ mergeMode = "none"
  /\ mergeOut = <<>>
  /\ osArgs = <<>>
  /\ ourArgs = <<>>
  /\ kubectlArgs = <<>>
  /\ kubeFile = [status |-> "ok", contexts |-> <<>>]
  /\ configFile = [status |-> "absent", contexts |-> <<>>]
  /\ contexts = <<>>
  /\ allContexts = FALSE
  /\ args = <<>>
  /\ pc = "off"
  /\ targetContexts = <<>>
  /\ results = <<>>
  /\ loopIndex = 1
  /\ wg = 0
  /\ worker = <<>>
  /\ proc = <<>>
  /\ storeLog = <<>>
  /\ returned = NoList
  /\ stdout = <<>>
  /\ stderr = <<>>
  /\ exitStatus = NotExited

\* Mutant of CallMergeResults: the merge is called with showHeaders false
CallMergeResults_NoHeaders ==
  /\ mergeMode = "none"
  /\ mergeMode' = "table"
  /\ mergeOut' = MergeResults(mergeIn, FALSE)
  /\ UNCHANGED <<mergeIn, runVars, cliVars>>

\* merger.MergeResults(results, true)
CallMergeResults ==
  /\ mergeMode = "none"
  /\ mergeMode' = "table"
  /\ mergeOut' = MergeResults(mergeIn, TRUE)
  /\ UNCHANGED <<mergeIn, runVars, cliVars>>

\* merger.MergeNonTableOutput(results)
CallMergeNonTableOutput ==
  /\ mergeMode = "none"
  /\ mergeMode' = "nontable"
  /\ mergeOut' = MergeNonTableOutput(mergeIn)
  /\ UNCHANGED <<mergeIn, runVars, cliVars>>

NextMerge == CallMergeResults \/ CallMergeNonTableOutput

SpecMerge == InitMerge /\ [][NextMerge]_vars

(***************************************************************************)
(* Properties of the run (Spec).                                           *)
(***************************************************************************)
\* The indices of the target list
Targets == 1..Len(targetContexts)

\* C1: the list Execute returns has one result per target, and the result at
\* index i carries the name of target i, whatever the order of completion.
C1_ResultsAlignedWithTargets ==
  returned.visible =>
    /\ Len(returned.list) = Len(targetContexts)
    /\ \A i \in Targets : returned.list[i].Context = targetContexts[i]

\* C1 witness: Execute has returned for two different targets whose
\* goroutines finished in the reverse of the target order.
C1_Witness ==
  /\ returned.visible
  /\ Len(targetContexts) = 2
  /\ targetContexts[1] # targetContexts[2]
  /\ storeLog[1].by = 2

\* C2: Execute is a join barrier: once it has returned (and in every later
\* position of the caller) every goroutine has reached its end, every
\* subprocess has ended in success, error or timeout, every slot has been
\* written, and the list the caller sees is the final slice.
C2_JoinBarrier ==
  (returned.visible \/ pc \in {"merge", "printed"}) =>
    /\ returned.visible
    /\ wg = 0
    /\ \A i \in Targets :
         /\ worker[i] = "done"
         /\ proc[i].kind \in {"spawnfail", "exited", "killed"}
         /\ \E k \in 1..Len(storeLog) : storeLog[k].slot = i
    /\ returned.list = results

\* C2 witness: Execute has returned after two goroutines ended differently,
\* one of them by timeout.
C2_Witness ==
  /\ pc = "merge"
  /\ Len(targetContexts) = 2
  /\ proc[1].kind = "killed"
  /\ proc[2].kind = "exited"

\* The result of target i is the one its own subprocess produced
OwnResult(i) ==
  /\ returned.list[i].Output = proc[i].stdout
  /\ (returned.list[i].Error = NilError) <=> (proc[i].kind = "exited" /\ proc[i].code = 0)
  /\ proc[i].kind = "exited" =>
       /\ returned.list[i].ExitCode = proc[i].code
       /\ proc[i].code # 0 => returned.list[i].Error.msg = proc[i].stderr
  /\ proc[i].kind = "spawnfail" => returned.list[i].Error = ExecNotFound

\* C3: when the subprocess of target j is killed at its deadline, the result
\* of j has an error and every other target's result is the one its own
\* subprocess produced, whatever the order in which the goroutines finish.
C3_TimeoutIsolated ==
  returned.visible =>
    \A j \in Targets : proc[j].kind = "killed" =>
      /\ returned.list[j].Error # NilError
      /\ \A i \in Targets \ {j} : OwnResult(i)

\* C3 witness: target 1 timed out and finished last, target 2 succeeded.
C3_Witness ==
  /\ returned.visible
  /\ Len(targetContexts) = 2
  /\ proc[1].kind = "killed"
  /\ proc[2].kind = "exited" /\ proc[2].code = 0
  /\ returned.list[2].Error = NilError
  /\ storeLog[1].by = 2

\* The subprocess of target i exited by itself with a nonzero status
ExitedNonzero(i) == proc[i].kind = "exited" /\ proc[i].code # 0

\* C4: the error of a target whose subprocess was killed at its deadline is
\* of a kind of its own: it differs from the error of every target whose
\* subprocess exited nonzero or could not be started.
C4_TimeoutErrorDistinct ==
  returned.visible =>
    \A i \in Targets : \A j \in Targets :
      (proc[i].kind = "killed" /\ (ExitedNonzero(j) \/ proc[j].kind = "spawnfail"))
        => returned.list[i].Error # returned.list[j].Error

\* strings.TrimRight(s, whitespace): s without its trailing white space
RECURSIVE TrimRightSpace(_)
TrimRightSpace(s) ==
  IF Len(s) > 0 /\ s[Len(s)] \in {" ", NL, "\t", "\r"}
  THEN TrimRightSpace(SubSeq(s, 1, Len(s) - 1))
  ELSE s

\* C5: for a subprocess that exited nonzero, the error message is the captured
\* standard error without its trailing white space, and ExitCode is the
\* exit code of the process.
C5_StderrTrimmedAndExitCode ==
  returned.visible =>
    \A i \in Targets : ExitedNonzero(i) =>
      /\ returned.list[i].Error.msg = TrimRightSpace(proc[i].stderr)
      /\ returned.list[i].ExitCode = proc[i].code

\* C6: a result has no error exactly when its subprocess started and exited
\* with status 0; then Output is the captured standard output alone and
\* ExitCode is 0.
C6_SuccessIffExitZero ==
  returned.visible =>
    \A i \in Targets :
      /\ (returned.list[i].Error = NilError)
           <=> (proc[i].kind = "exited" /\ proc[i].code = 0)
      /\ returned.list[i].Error = NilError =>
           /\ returned.list[i].Output = proc[i].stdout
           /\ returned.list[i].ExitCode = 0

\* C6 witness: a subprocess that wrote to both streams and exited 0 has an
\* error-free result, next to a target whose subprocess could not be started.
C6_Witness ==
  /\ returned.visible
  /\ \E i \in Targets :
       /\ proc[i].kind = "exited" /\ proc[i].code = 0
       /\ proc[i].stderr # <<>> /\ proc[i].stdout # <<>>
       /\ returned.list[i].Error = NilError
  /\ \E j \in Targets : proc[j].kind = "spawnfail" /\ returned.list[j].Error # NilError

\* C7: a run that dispatched ends with status 0 only if no result has an
\* error and with a nonzero status if some result has one; in both cases the
\* merged output of all results is on standard output when the status is set.
C7_ExitStatusAfterOutput ==
  (exitStatus # NotExited /\ returned.visible) =>
    /\ stdout = <<mergedOutput(args, returned.list)>>
    /\ (exitStatus = 0) <=> (\A i \in Targets : returned.list[i].Error = NilError)
    /\ (\E i \in Targets : returned.list[i].Error # NilError) => exitStatus = 1

\* C7 witness: a run over two targets, one failed and one succeeded, has
\* exited nonzero with the output printed.
C7_Witness ==
  /\ pc = "exited"
  /\ exitStatus = 1
  /\ Len(targetContexts) = 2
  /\ returned.list[1].Error = NilError
  /\ returned.list[2].Error # NilError
  /\ stdout # <<>> /\ stdout[1] # <<>>

\* The config file is the source of the targets of this run
ConfigConsulted == Len(contexts) = 0 /\ ~allContexts /\ ConfigExists

\* The run resolved its sources to an empty target list
ResolvedEmpty == ~NewManagerFails /\ ~ResolveTargets.err /\ Len(ResolveTargets.targets) = 0

\* C8: a run with a kubectl command whose kubeconfig cannot be read or parsed,
\* whose consulted config file cannot be read or parsed, or whose resolved
\* target list is empty, ends with a nonzero status before dispatch: no
\* goroutine and no subprocess is started, nothing is returned by Execute and
\* nothing is written to standard output.
C8_FatalBeforeDispatch ==
  (pc # "start" /\ Len(args) > 0
     /\ (NewManagerFails \/ (ConfigConsulted /\ ConfigLoadFails) \/ ResolvedEmpty)) =>
    /\ pc = "exited"
    /\ exitStatus = 1
    /\ stdout = <<>>
    /\ stderr # <<>>
    /\ worker = <<>> /\ proc = <<>> /\ storeLog = <<>>
    /\ ~returned.visible

\* C8 witness: the only requested name is unknown to a non-empty kubeconfig,
\* and the run has ended.
C8_Witness ==
  /\ pc = "exited"
  /\ Len(args) > 0
  /\ kubeFile.status = "ok" /\ Len(kubeFile.contexts) > 0
  /\ contexts = <<CtxZ>>
  /\ exitStatus = 1

(***************************************************************************)
(* Properties of the grouped merge (SpecMerge).                            *)
(***************************************************************************)
\* The delimiter line of a result, without its newline
DelimiterLine(r) ==
  IF r.Error # NilError
  THEN <<"=", "=", "=", " ", "C", "l", "u", "s", "t", "e", "r", ":", " ">> \o r.Context \o <<" ", "(", "E", "r", "r", "o", "r", ":", " ">> \o r.Error.msg \o <<")", " ", "=", "=", "=">>
  ELSE <<"=", "=", "=", " ", "C", "l", "u", "s", "t", "e", "r", ":", " ">> \o r.Context \o <<" ", "=", "=", "=">>

\* The output followed by a newline if it does not end with one
WithFinalNewline(text) == IF HasSuffix(text) THEN text ELSE text \o <<NL>>

\* The grouped layout: per result a delimiter line, the body of a result
\* without error, and a blank line; blankAfterError says whether the blank
\* line follows the delimiter line of an errored result too
RECURSIVE GroupedLayout(_, _)
GroupedLayout(rs, blankAfterError) ==
  IF rs = <<>> THEN <<>>
  ELSE LET r == Head(rs)
       IN  DelimiterLine(r) \o <<NL>>
             \o (IF r.Error = NilError THEN WithFinalNewline(r.Output) ELSE <<>>)
             \o (IF r.Error = NilError \/ blankAfterError THEN <<NL>> ELSE <<>>)
             \o GroupedLayout(Tail(rs), blankAfterError)

\* A (output "abc", success) followed by B (error "boom")
ExampleAB ==
  <<[Context |-> CtxA, Output |-> <<"a", "b", "c">>, Error |-> NilError, ExitCode |-> 0],
    [Context |-> CtxB, Output |-> <<>>, Error |-> Errorf(<<"b", "o", "o", "m">>),
     ExitCode |-> 1]>>

\* "=== Cluster: A ===\nabc\n\n=== Cluster: B (Error: boom) ===\n\n"
ExampleABClaimed ==
  <<"=", "=", "=", " ", "C", "l", "u", "s", "t", "e", "r", ":", " ", "A", " ", "=", "=", "=", NL, "a", "b", "c", NL, NL, "=", "=", "=", " ", "C", "l", "u", "s", "t", "e", "r", ":", " ", "B", " ", "(", "E", "r", "r", "o", "r", ":", " ", "b", "o", "o", "m", ")", " ", "=", "=", "=", NL, NL>>

\* "=== Cluster: A ===\nabc\n\n=== Cluster: B (Error: boom) ===\n"
ExampleABActual ==
  <<"=", "=", "=", " ", "C", "l", "u", "s", "t", "e", "r", ":", " ", "A", " ", "=", "=", "=", NL, "a", "b", "c", NL, NL, "=", "=", "=", " ", "C", "l", "u", "s", "t", "e", "r", ":", " ", "B", " ", "(", "E", "r", "r", "o", "r", ":", " ", "b", "o", "o", "m", ")", " ", "=", "=", "=", NL>>

\* C9 as stated: every result, errored or not, contributes a delimiter line,
\* its body if not errored, and one blank separator line; the merge of A and
\* B ends with a blank line after B's delimiter line.
C9_BlankLineAfterEveryResult ==
  mergeMode = "nontable" =>
    /\ mergeOut = GroupedLayout(mergeIn, TRUE)
    /\ mergeIn = ExampleAB => mergeOut = ExampleABClaimed

\* C9 amended: every result contributes a delimiter line; a result without
\* error then contributes its body and one blank separator line, an errored
\* result contributes nothing more; the merge of A and B ends with B's
\* delimiter line.
C9_BlankLineAfterSuccessOnly ==
  mergeMode = "nontable" =>
    /\ mergeOut = GroupedLayout(mergeIn, FALSE)
    /\ mergeIn = ExampleAB => mergeOut = ExampleABActual

\* C9 witness: the grouped merge of A and B has been computed.
C9_Witness == mergeMode = "nontable" /\ mergeIn = ExampleAB /\ mergeOut # <<>>

\* Number of newlines at the end of a text
RECURSIVE TrailingNewlines(_)
TrailingNewlines(text) ==
  IF HasSuffix(text) THEN 1 + TrailingNewlines(SubSeq(text, 1, Len(text) - 1)) ELSE 0

\* Where the block of result k starts in the grouped output, less one
RECURSIVE BlockOffset(_)
BlockOffset(k) == IF k = 1 THEN 0 ELSE BlockOffset(k - 1) + Len(NonTableBlock(mergeIn[k - 1]))

\* The body of successful result k in the grouped output: what lies between
\* its delimiter line and the blank separator line ending its block
BodyInOutput(k) ==
  LET first == BlockOffset(k) + Len(DelimiterLine(mergeIn[k])) + 2
      last  == BlockOffset(k + 1) - 1
  IN  SubSeq(mergeOut, first, last)

\* The results without error of the merge
Successful == {k \in 1..Len(mergeIn) : mergeIn[k].Error = NilError}

\* C10 as stated: the body of every successful result ends with exactly one
\* newline, however many newlines end the captured output.
C10_BodyEndsWithExactlyOneNewline ==
  mergeMode = "nontable" =>
    \A k \in Successful : TrailingNewlines(BodyInOutput(k)) = 1

\* C10 amended: the body of every successful result is the captured output,
\* followed by one newline only if the output does not end with one; so it
\* ends with one newline when the output ends with none or one, and with all
\* n newlines of an output that ends with n >= 2.
C10_BodyKeepsTrailingNewlines ==
  mergeMode = "nontable" =>
    \A k \in Successful :
      /\ BodyInOutput(k) = WithFinalNewline(mergeIn[k].Output)
      /\ TrailingNewlines(BodyInOutput(k)) =
           (IF TrailingNewlines(mergeIn[k].Output) = 0
            THEN 1 ELSE TrailingNewlines(mergeIn[k].Output))

\* C10 witness: a grouped merge of an output without final newline and an
\* output ending with two newlines.
C10_Witness ==
  /\ mergeMode = "nontable"
  /\ Len(mergeIn) = 2
  /\ mergeIn[1].Error = NilError /\ TrailingNewlines(mergeIn[1].Output) = 0
  /\ mergeIn[1].Output # <<>>
  /\ mergeIn[2].Error = NilError /\ TrailingNewlines(mergeIn[2].Output) = 2

(***************************************************************************)
(* Properties of the tabular merge (SpecMerge).                            *)
(***************************************************************************)
\* The lines of the merged output
OutLines == IF mergeOut = <<>> THEN <<>> ELSE Split(TrimSuffix(mergeOut))

\* The lines of a result's output, without the empty line after a final newline
ResultLines(r) == IF r.Output = <<>> THEN <<>> ELSE Split(TrimSuffix(r.Output))

\* max(7, longest target name over all results)
ColumnWidth(rs) ==
  LET lens == {Len(rs[k].Context) : k \in 1..Len(rs)} \cup {7}
  IN  CHOOSE m \in lens : \A x \in lens : x <= m

\* label left-justified to width w, three spaces, then the text
Row(label, w, text) ==
  label \o [k \in 1..(w - Len(label)) |-> " "] \o <<" ", " ", " ">> \o text

\* Line 0 of result k is an accepted header
Headed(rs, k) ==
  /\ rs[k].Error = NilError
  /\ ResultLines(rs[k]) # <<>>
  /\ isHeaderLine(ResultLines(rs[k])[1])

\* Every result is successful and starts with an accepted header
AllHeaded(rs) == \A k \in 1..Len(rs) : Headed(rs, k)

\* The rows of lines i.. of result k: non-empty lines after line 0
RECURSIVE DataRowsFrom(_, _, _)
DataRowsFrom(rs, k, i) ==
  IF i > Len(ResultLines(rs[k])) THEN <<>>
  ELSE (IF ResultLines(rs[k])[i] = <<>> THEN <<>>
        ELSE <<Row(rs[k].Context, ColumnWidth(rs), ResultLines(rs[k])[i])>>)
         \o DataRowsFrom(rs, k, i + 1)

\* The data rows of results k.., in input order
RECURSIVE DataRowsOfHeaded(_, _)
DataRowsOfHeaded(rs, k) ==
  IF k > Len(rs) THEN <<>> ELSE DataRowsFrom(rs, k, 2) \o DataRowsOfHeaded(rs, k + 1)

\* The output lines that start with the CLUSTER label
ClusterLines == {n \in 1..Len(OutLines) :
                   /\ Len(OutLines[n]) >= Len(<<"C", "L", "U", "S", "T", "E", "R">>)
                   /\ SubSeq(OutLines[n], 1, Len(<<"C", "L", "U", "S", "T", "E", "R">>)) = <<"C", "L", "U", "S", "T", "E", "R">>}

\* C11: for a non-empty list of successful results that each start with an
\* accepted header, the tabular merge is one header line (CLUSTER padded to
\* max(7, longest target name), three spaces, the first result's header
\* text) followed by the non-empty data lines of every result in order, each
\* as its target padded to that width, three spaces, the line; later headers
\* are not emitted.
C11_OneHeaderAndPrefixedRows ==
  (mergeMode = "table" /\ Len(mergeIn) > 0 /\ AllHeaded(mergeIn)) =>
    /\ OutLines = <<Row(<<"C", "L", "U", "S", "T", "E", "R">>, ColumnWidth(mergeIn), ResultLines(mergeIn[1])[1])>>
                    \o DataRowsOfHeaded(mergeIn, 1)
    /\ Cardinality(ClusterLines) = 1

\* C11 witness: two headed results with different headers have been merged,
\* one of them under a target name longer than 7 characters.
C11_Witness ==
  /\ mergeMode = "table"
  /\ Len(mergeIn) = 2
  /\ AllHeaded(mergeIn)
  /\ ResultLines(mergeIn[1])[1] # ResultLines(mergeIn[2])[1]
  /\ Len(mergeIn[2].Context) > 7
  /\ Len(OutLines) >= 3

\* Every result of the list is successful
AllSuccessful(rs) == \A k \in 1..Len(rs) : rs[k].Error = NilError

\* An earlier result's header was emitted before result k
HeaderBefore(rs, k) == \E j \in 1..(k - 1) : Headed(rs, j)

\* Number of header lines the merge suppresses
SuppressedHeaders(rs) ==
  Cardinality({k \in 1..Len(rs) : Headed(rs, k) /\ HeaderBefore(rs, k)})

RECURSIVE SumLines(_, _, _)
SumLines(rs, k, nonBlankOnly) ==
  IF k > Len(rs) THEN 0
  ELSE Cardinality({i \in 1..Len(ResultLines(rs[k])) :
                      ~nonBlankOnly \/ ResultLines(rs[k])[i] # <<>>})
         + SumLines(rs, k + 1, nonBlankOnly)

\* An output line that is a row with empty text
BlankRows == {n \in 1..Len(OutLines) : Len(OutLines[n]) <= ColumnWidth(mergeIn) + 3}

\* C12 as stated: of the lines of successful results only the empty line
\* after a final newline is dropped (and the suppressed headers): every
\* other line, empty or not, is a line of the merged output.
C12_InteriorBlankLinesKept ==
  (mergeMode = "table" /\ AllSuccessful(mergeIn)) =>
    Len(OutLines) = SumLines(mergeIn, 1, FALSE) - SuppressedHeaders(mergeIn)

\* C12 amended: every empty line of a successful result is dropped, the one
\* after the final newline and every interior one; the merged output has one
\* line per non-empty line (less the suppressed headers) and no row with
\* empty text.
C12_AllBlankLinesDropped ==
  (mergeMode = "table" /\ AllSuccessful(mergeIn)) =>
    /\ Len(OutLines) = SumLines(mergeIn, 1, TRUE) - SuppressedHeaders(mergeIn)
    /\ BlankRows = {}

\* C12 witness: a successful result with an empty line inside has been merged.
C12_Witness ==
  /\ mergeMode = "table"
  /\ Len(mergeIn) = 1
  /\ mergeIn[1].Error = NilError
  /\ \E i \in 1..Len(ResultLines(mergeIn[1])) :
       i < Len(ResultLines(mergeIn[1])) /\ ResultLines(mergeIn[1])[i] = <<>>
  /\ Len(OutLines) = 2

\* The output lines without their cluster column
Stripped ==
  [n \in 1..Len(OutLines) |->
     SubSeq(OutLines[n], ColumnWidth(mergeIn) + 4, Len(OutLines[n]))]

\* The non-empty lines of a result's output
RECURSIVE NonBlank(_)
NonBlank(ls) ==
  IF ls = <<>> THEN <<>>
  ELSE (IF Head(ls) = <<>> THEN <<>> ELSE <<Head(ls)>>) \o NonBlank(Tail(ls))

\* One successful result has been merged in tabular mode
SingleSuccess == mergeMode = "table" /\ Len(mergeIn) = 1 /\ mergeIn[1].Error = NilError

\* C13 as stated: the tabular merge of one successful result, without the
\* cluster column, is the sequence of the result's lines.
C13_SingleResultRoundTrip ==
  SingleSuccess => Stripped = ResultLines(mergeIn[1])

\* C13 amended: the tabular merge of one successful result, without the
\* cluster column, is the sequence of the result's non-empty lines in their
\* order (header or not at line 0); empty lines are dropped.
C13_SingleResultNonBlankRoundTrip ==
  SingleSuccess => Stripped = NonBlank(ResultLines(mergeIn[1]))

\* C13 witness: one successful result whose line 0 is a header, followed by
\* two rows, has been merged alone.
C13_Witness ==
  /\ SingleSuccess
  /\ Headed(mergeIn, 1)
  /\ Len(Stripped) = 3

\* "# Error from cluster <target>: <error message>"
ErrorLine(r) == <<"#", " ", "E", "r", "r", "o", "r", " ", "f", "r", "o", "m", " ", "c", "l", "u", "s", "t", "e", "r", " ">> \o r.Context \o <<":", " ">> \o r.Error.msg

\* The results with an error
Errored(rs) == {k \in 1..Len(rs) : rs[k].Error # NilError}

\* The list without its errored results
RECURSIVE SuccessfulOnly(_)
SuccessfulOnly(rs) ==
  IF rs = <<>> THEN <<>>
  ELSE (IF Head(rs).Error = NilError THEN <<Head(rs)>> ELSE <<>>) \o SuccessfulOnly(Tail(rs))

\* C14: every errored result contributes exactly one line, "# Error from
\* cluster <target>: <error message>", and nothing else; the successful
\* results contribute their header and data lines as without it.
C14_ErroredResultIsOneLine ==
  mergeMode = "table" =>
    /\ \A k \in Errored(mergeIn) :
         \E n \in 1..Len(OutLines) : OutLines[n] = ErrorLine(mergeIn[k])
    /\ Len(OutLines) = Cardinality(Errored(mergeIn))
                         + SumLines(SuccessfulOnly(mergeIn), 1, TRUE)
                         - SuppressedHeaders(SuccessfulOnly(mergeIn))

\* The text result k contributes to the tabular merge: its error line, or
\* its non-empty lines in their order, the header at line 0 under the CLUSTER
\* label unless an earlier header was emitted
RECURSIVE LinesText(_, _, _)
LinesText(rs, k, i) ==
  IF i > Len(ResultLines(rs[k])) THEN <<>>
  ELSE LET line == ResultLines(rs[k])[i]
       IN  (IF line = <<>> THEN <<>>
            ELSE IF i = 1 /\ Headed(rs, k)
            THEN (IF HeaderBefore(rs, k) THEN <<>>
                  ELSE Row(<<"C", "L", "U", "S", "T", "E", "R">>, ColumnWidth(rs), line) \o <<NL>>)
            ELSE Row(rs[k].Context, ColumnWidth(rs), line) \o <<NL>>)
             \o LinesText(rs, k, i + 1)

Contribution(rs, k) ==
  IF rs[k].Error # NilError THEN ErrorLine(rs[k]) \o <<NL>> ELSE LinesText(rs, k, 1)

RECURSIVE ContributionsFrom(_, _)
ContributionsFrom(rs, k) ==
  IF k > Len(rs) THEN <<>> ELSE Contribution(rs, k) \o ContributionsFrom(rs, k + 1)

\* C15: the tabular merge is the contributions of the results in input
\* order: everything from results[i] precedes everything from results[j]
\* for i < j, and the lines of one result keep their order.
C15_OutputInInputOrder ==
  mergeMode = "table" => mergeOut = ContributionsFrom(mergeIn, 1)

\* C15 witness: an errored result followed by a table of two rows has been
\* merged: the error line comes first, then the header and the two rows.
C15_Witness ==
  /\ mergeMode = "table"
  /\ Len(mergeIn) = 2
  /\ mergeIn[1].Error # NilError
  /\ mergeIn[2].Error = NilError /\ mergeIn[2].Output = TableTwoRows
  /\ Len(OutLines) >= 4

(***************************************************************************)
(* Properties of target resolution and of the choice of merge (Spec).      *)
(***************************************************************************)
\* The context names of the kubeconfig
KubeNames == {kubeFile.contexts[k] : k \in 1..Len(kubeFile.contexts)}

\* No name occurs twice in the list
Unique(list) == \A i, j \in 1..Len(list) : i # j => list[i] # list[j]

\* C17: in a run that reaches the dispatcher (from a kubeconfig whose context
\* names are distinct) no target name occurs twice in the target list, also
\* when the requested names repeat a name, and the returned list has exactly
\* one result per target name.
C17_TargetNamesUnique ==
  (pc # "start" /\ Len(targetContexts) > 0 /\ Unique(kubeFile.contexts)) =>
    /\ Unique(targetContexts)
    /\ returned.visible =>
         \A n \in KubeNames :
           Cardinality({i \in 1..Len(returned.list) : returned.list[i].Context = n}) <= 1

\* The source a run takes its target names from, by priority
ChosenNames ==
  IF Len(contexts) > 0 THEN contexts
  ELSE IF allContexts THEN kubeFile.contexts
  ELSE IF configFile.status = "ok" /\ Len(configFile.contexts) > 0 THEN configFile.contexts
  ELSE kubeFile.contexts

\* C18: the target list of a run that reaches the dispatcher is chosen by
\* strict priority: a non-empty --contexts list; otherwise, with
\* --all-contexts, every kubeconfig context; otherwise the contexts of an
\* existing config file that has some; otherwise every kubeconfig context.
\* Of a chosen list the names the kubeconfig knows are the targets, in the
\* list's order.
C18_TargetsByPriority ==
  (pc # "start" /\ Len(targetContexts) > 0) =>
    targetContexts = SelectSeq(ChosenNames, LAMBDA n : n \in KubeNames)

\* C18 witness: without flags, a run took the two contexts of the config
\* file, in the file's order, which is not the kubeconfig's.
C18_Witness ==
  /\ pc = "dispatch"
  /\ Len(contexts) = 0 /\ ~allContexts
  /\ configFile.status = "ok" /\ configFile.contexts = <<CtxB, CtxA>>
  /\ kubeFile.contexts = <<CtxA, CtxB>>
  /\ targetContexts = <<CtxB, CtxA>>

\* kubectl flags that take a value
FlagsWithValue == {"-n"}

\* The kubectl command name of an argument list: its first word that is
\* neither a flag nor a flag's value
RECURSIVE CommandName(_)
CommandName(kargs) ==
  IF kargs = <<>> THEN ""
  ELSE IF Head(kargs) \in FlagsWithValue
  THEN (IF Len(kargs) >= 2 THEN CommandName(Tail(Tail(kargs))) ELSE "")
  ELSE Head(kargs)

\* The fixed set of non-tabular command names
NonTabularNames == {nonTableCommands[k] : k \in 1..Len(nonTableCommands)}

\* C20: the printed output is the grouped merge of the results when the
\* kubectl command name is in the non-tabular set and the tabular merge
\* otherwise, wherever kubectl flags stand in the argument list.
C20_MergeModeByCommandName ==
  (pc \in {"printed", "exited"} /\ returned.visible) =>
    stdout[Len(stdout)] =
      IF CommandName(args) \in NonTabularNames
      THEN MergeNonTableOutput(returned.list)
      ELSE MergeResults(returned.list, TRUE)

(***************************************************************************)
(* Termination of Execute (SpecLive).                                      *)
(***************************************************************************)
\* Every goroutine has stored its result and called wg.Done()
AllWorkersDone == \A i \in 1..Len(worker) : worker[i] = "done"

\* C16: when every subprocess exits or is killed at its deadline, a run that
\* reaches the dispatcher leads to every goroutine being finished and to
\* Execute having returned, whatever the outcomes of the subprocesses.
C16_ExecuteEventuallyReturns ==
  (pc = "dispatch") ~> (AllWorkersDone /\ returned.visible)

\* C16 witness: Execute has returned although one subprocess was killed at
\* its deadline and another could not be started.
C16_Witness ==
  /\ returned.visible
  /\ AllWorkersDone
  /\ \E i, j \in 1..Len(proc) : proc[i].kind = "killed" /\ proc[j].kind = "spawnfail"

(***************************************************************************)
(* The config file and the targets of a run (SpecConfig).                  *)
(***************************************************************************)
\* C19: when the config file exists and neither --contexts nor
\* --all-contexts is given, every target of a run is a context listed in the
\* file, after any sequence of config use/add/remove operations that leaves
\* the file in place.
C19_OnlyConfiguredContexts ==
  (pc = "dispatch" /\ ConfigExists /\ Len(contexts) = 0 /\ ~allContexts) =>
    \A i \in 1..Len(targetContexts) : HasContext(configFile.contexts, targetContexts[i])

\* C24: after any sequence of config use, add, remove and clear operations
\* that starts without a config file, the saved context list holds no name
\* twice (so that removing a name once leaves it absent from the list).
C24_SavedListHasNoDuplicates ==
  configFile.status = "ok" => Unique(configFile.contexts)

(***************************************************************************)
(* The writes to Execute's results slice (Spec).                           *)
(***************************************************************************)
\* The writes to results[i] so far
WritesTo(i) == {k \in 1..Len(storeLog) : storeLog[k].slot = i}

\* C23: during Execute every write to results[i] is made by goroutine i; a
\* slot is written at most once, and exactly once when Execute returns;
\* before its write a slot holds the zero Result and from its write on the
\* result of its own goroutine's subprocess, unmodified.
C23_SlotWrittenOnceByOwner ==
  /\ \A k \in 1..Len(storeLog) : storeLog[k].by = storeLog[k].slot
  /\ \A i \in 1..Len(results) :
       /\ Cardinality(WritesTo(i)) = IF worker[i] = "done" THEN 1 ELSE 0
       /\ results[i] = IF worker[i] = "done"
                       THEN executeOne(targetContexts[i], proc[i])
                       ELSE ZeroResult
  /\ returned.visible => \A i \in 1..Len(results) : Cardinality(WritesTo(i)) = 1

\* C23 witness: of two goroutines the second has written its slot while the
\* first one's subprocess has ended but its slot is still the zero Result.
C23_Witness ==
  /\ pc = "dispatch"
  /\ Len(results) = 2
  /\ worker[1] = "ran" /\ results[1] = ZeroResult
  /\ worker[2] = "done" /\ results[2] # ZeroResult
  /\ storeLog = <<[slot |-> 2, by |-> 2]>>

(***************************************************************************)
(* FilterContexts as a function (SpecFilter).                              *)
(***************************************************************************)
\* C22: FilterContexts on a non-empty requested list returns the requested
\* names that the kubeconfig has, in the requested order, and drops the
\* others without an error; on an empty list it returns every kubeconfig
\* context in the file's order.
C22_FilterKeepsKnownInRequestedOrder ==
  pc = "filtered" =>
    /\ targetContexts = IF contexts = <<>> THEN kubeFile.contexts
                        ELSE SelectSeq(contexts, LAMBDA n : n \in KubeNames)
    /\ stderr = <<>>
    /\ exitStatus = NotExited

\* C22 witness: an unknown name and a known one were requested, from a
\* kubeconfig that lists the known one second; the known one is returned.
C22_Witness ==
  /\ pc = "filtered"
  /\ contexts = <<CtxZ, CtxB>>
  /\ kubeFile.contexts = <<CtxA, CtxB>>
  /\ targetContexts = <<CtxB>>

(***************************************************************************)
(* The tokens passed on to kubectl (SpecArgs).                             *)
(***************************************************************************)
\* A flag of multikubectl that stands alone and takes the next token as value
TakesValue(tok) == tok = TokTimeout

\* A flag of multikubectl that carries no further token: --all-contexts, or
\* a flag with its value after "="
StandsAlone(tok) == tok \in {TokAllContexts, TokContextsEq}

\* Every value-taking flag is followed by its value
WellFormed(cmdline) ==
  \A i \in 1..Len(cmdline) :
    TakesValue(cmdline[i]) => i < Len(cmdline) /\ cmdline[i + 1] = TokDuration

\* The tokens from position i on that are neither a flag of multikubectl nor
\* the value of one
RECURSIVE Forwarded(_, _)
Forwarded(cmdline, i) ==
  IF i > Len(cmdline) THEN <<>>
  ELSE IF TakesValue(cmdline[i]) THEN Forwarded(cmdline, i + 2)
  ELSE IF StandsAlone(cmdline[i]) THEN Forwarded(cmdline, i + 1)
  ELSE <<cmdline[i]>> \o Forwarded(cmdline, i + 1)

\* C21: the tokens handed to kubectl are the tokens of the command line
\* other than multikubectl's flags and the values of the value-taking ones,
\* verbatim and in their order; so "--all-contexts get pods" hands on
\* "get pods".
C21_OtherTokensForwardedInOrder ==
  (pc = "separated" /\ WellFormed(osArgs)) => kubectlArgs = Forwarded(osArgs, 1)

====
